---- MODULE Spec2Model ----
(***************************************************************************)
(* A model of the polaris Gemini server (src/src/main.rs): the accept      *)
(* loop, the per-connection task it spawns, the URL and path handling of   *)
(* the task, the directory listing it renders and the wire format of the   *)
(* response it writes, together with the status taxonomy of status.rs and  *)
(* the response model of response.rs.                                      *)
(*                                                                         *)
(* Text is modelled as a sequence of one-character strings.  A request     *)
(* path is a sequence of tokens: a token is one character or one percent   *)
(* escape ("%2e", "%2F"), which is three bytes wide.                       *)
(***************************************************************************)
EXTENDS Integers, Sequences, FiniteSets, TLC

\* ------------------------------------------------------------------------
\* Bounds of the model
\* ------------------------------------------------------------------------

\* Number of client connections the environment opens.
NConn == 2

\* Longest request path, in tokens.
MaxPathLen == 5

\* Largest number of entries of the content root in the listing workload.
MaxEntries == 3

\* Longest meta of a response given to as_bytes, in characters.
MaxMeta == 2

\* ------------------------------------------------------------------------
\* Program constants
\* ------------------------------------------------------------------------

\* let mut uri_buffer = [0; 2048];
URI_BUFFER == 2048

\* if bytes_read > 1024
URI_LIMIT == 1024

\* The largest u8, the argument type of Code::from.
U8_MAX == 255

\* ------------------------------------------------------------------------
\* status.rs: the status taxonomy
\* ------------------------------------------------------------------------

\* status_codes! ({ ... }) plus the Invalid = 0 member the macro adds.
Code ==
    [ Input |-> 10, SensitiveInput |-> 11, Input2 |-> 12,
      Input3 |-> 13, Input4 |-> 14, Input5 |-> 15,
      Input6 |-> 16, Input7 |-> 17, Input8 |-> 18,
      Input9 |-> 19, Success |-> 20, SuccessCode1 |-> 21,
      SuccessCode2 |-> 22, SuccessCode3 |-> 23, SuccessCode4 |-> 24,
      SuccessCode5 |-> 25, SuccessCode6 |-> 26, SuccessCode7 |-> 27,
      SuccessCode8 |-> 28, SuccessCode9 |-> 29, RedirectPermanent |-> 30,
      RedirectTemporary |-> 31, RedirectCode2 |-> 32, RedirectCode3 |-> 33,
      RedirectCode4 |-> 34, RedirectCode5 |-> 35, RedirectCode6 |-> 36,
      RedirectCode7 |-> 37, RedirectCode8 |-> 38, RedirectCode9 |-> 39,
      TemporaryFailure |-> 40, ServerUnavailable |-> 41, CgiError |-> 42,
      ProxyError |-> 43, SlowDown |-> 44, TemporaryFailureCode5 |-> 45,
      TemporaryFailureCode6 |-> 46, TemporaryFailureCode7 |-> 47,
      TemporaryFailureCode8 |-> 48, TemporaryFailureCode9 |-> 49,
      PermanentFailure |-> 50, NotFound |-> 51, Gone |-> 52,
      ProxyRequestRefused |-> 53, PermanentFailureCode4 |-> 54,
      PermanentFailureCode5 |-> 55, PermanentFailureCode6 |-> 56,
      PermanentFailureCode7 |-> 57, PermanentFailureCode8 |-> 58,
      BadRequest |-> 59, ClientCertificationRequired |-> 60,
      ClientCertificationUnauthorized |-> 61, ClientCertificateNotValid |-> 62,
      ClientCertificateCode3 |-> 63, ClientCertificateCode4 |-> 64,
      ClientCertificateCode5 |-> 65, ClientCertificateCode6 |-> 66,
      ClientCertificateCode7 |-> 67, ClientCertificateCode8 |-> 68,
      ClientCertificateCode9 |-> 69,
      Invalid |-> 0 ]

\* The members of the enumeration.
CodeNames == DOMAIN Code

\* Mutant of in_range: the high end is exclusive.
in_range_exclusive(code, low, high) == Code[code] >= low /\ Code[code] < high

\* Code::in_range(&self, low, high)
in_range(code, low, high) == Code[code] >= low /\ Code[code] <= high

\* Code::is_input
is_input(code) == in_range(code, 10, 19)

\* Code::is_success
is_success(code) == in_range(code, 20, 29)

\* Code::is_redirect
is_redirect(code) == in_range(code, 30, 39)

\* Code::is_temporary_failure
is_temporary_failure(code) == in_range(code, 40, 49)

\* Code::is_permanent_failure
is_permanent_failure(code) == in_range(code, 50, 59)

\* Code::is_client_certification_failure
is_client_certification_failure(code) == in_range(code, 60, 69)

\* Code::last_digit
last_digit(code) == Code[code] % 10

\* Code::first_digit
first_digit(code) == Code[code] \div 10

\* Code::digit_pair
digit_pair(code) == <<first_digit(code), last_digit(code)>>

\* The members the match of From<u8> has an arm for: all but Invalid.
MatchedNames == CodeNames \ {"Invalid"}

\* Mutant of from_u8: a byte without an arm becomes PermanentFailure.
from_u8_default_failure(value) ==
    IF \E n \in MatchedNames : Code[n] = value
    THEN CHOOSE n \in MatchedNames : Code[n] = value
    ELSE "PermanentFailure"

\* impl From<u8> for Code: the arm of the value, or `_ => Self::Invalid`.
from_u8(value) ==
    IF \E n \in MatchedNames : Code[n] = value
    THEN CHOOSE n \in MatchedNames : Code[n] = value
    ELSE "Invalid"

\* ------------------------------------------------------------------------
\* Text helpers
\* ------------------------------------------------------------------------

\* The byte value of a character (ASCII), the order String's Ord compares by.
Ord(c) ==
    CASE c = "\n" -> 10
      [] c = "\r" -> 13
      [] c = " " -> 32
      [] c = "%" -> 37
      [] c = "." -> 46
      [] c = "/" -> 47
      [] c = "0" -> 48
      [] c = "2" -> 50
      [] c = "3" -> 51
      [] c = "<" -> 60
      [] c = "=" -> 61
      [] c = ">" -> 62
      [] c = "C" -> 67
      [] c = "E" -> 69
      [] c = "a" -> 97
      [] c = "b" -> 98
      [] c = "d" -> 100
      [] c = "e" -> 101
      [] c = "g" -> 103
      [] c = "h" -> 104
      [] c = "i" -> 105
      [] c = "m" -> 109
      [] c = "n" -> 110
      [] c = "s" -> 115
      [] c = "u" -> 117

\* Concatenation of a sequence of sequences.
RECURSIVE Flatten(_)
Flatten(ss) == IF ss = <<>> THEN <<>> ELSE Head(ss) \o Flatten(Tail(ss))

\* str::split(sep): the pieces of s between the occurrences of sep.
RECURSIVE SplitOn(_, _)
SplitOn(s, sep) ==
    IF s = <<>> THEN << <<>> >>
    ELSE LET rest == SplitOn(Tail(s), sep) IN
         IF Head(s) = sep
         THEN << <<>> >> \o rest
         ELSE << <<Head(s)>> \o Head(rest) >> \o Tail(rest)

\* The Ord of String: byte-wise lexicographic comparison, a < b.
RECURSIVE StrLess(_, _)
StrLess(a, b) ==
    IF b = <<>> THEN FALSE
    ELSE IF a = <<>> THEN TRUE
    ELSE IF Ord(Head(a)) # Ord(Head(b)) THEN Ord(Head(a)) < Ord(Head(b))
    ELSE StrLess(Tail(a), Tail(b))

\* The decimal digits Display writes for a u8.
DigitChars == <<"0", "1", "2", "3", "4", "5", "6", "7", "8", "9">>

RECURSIVE Decimal(_)
Decimal(n) ==
    IF n < 10 THEN <<DigitChars[n + 1]>>
    ELSE Append(Decimal(n \div 10), DigitChars[(n % 10) + 1])

\* The last element dropped.
Front(s) == SubSeq(s, 1, Len(s) - 1)

\* Iterator::rev
RECURSIVE Reverse(_)
Reverse(s) == IF s = <<>> THEN <<>> ELSE Append(Reverse(Tail(s)), Head(s))

\* ------------------------------------------------------------------------
\* response.rs: the response model and its serialization
\* ------------------------------------------------------------------------

\* The byte of an ASCII character.
AsciiByte(c) ==
    IF \E d \in 0..9 : DigitChars[d + 1] = c
    THEN 48 + (CHOOSE d \in 0..9 : DigitChars[d + 1] = c)
    ELSE Ord(c)

\* str::as_bytes of a text.
StrBytes(text) == [i \in DOMAIN text |-> AsciiByte(text[i])]

\* The code each arm of Response::as_bytes puts in its format string.
ArmCode ==
    [ Input |-> <<"1", "0">>, SensitiveInput |-> <<"1", "1">>,
      Success |-> <<"2", "0">>,
      RedirectPermanent |-> <<"3", "0">>, RedirectTemporary |-> <<"3", "1">>,
      TemporaryFailure |-> <<"4", "0">>, ServerUnavailable |-> <<"4", "1">>,
      CgiError |-> <<"4", "2">>, ProxyError |-> <<"4", "3">>,
      SlowDown |-> <<"4", "4">>,
      PermanentFailure |-> <<"5", "0">>, NotFound |-> <<"5", "1">>,
      Gone |-> <<"5", "1">>, ProxyRequestRefused |-> <<"5", "2">>,
      BadRequest |-> <<"5", "9">>,
      ClientCertificationRequired |-> <<"6", "0">>,
      ClientCertificationUnauthorized |-> <<"6", "1">>,
      ClientCertificateNotValid |-> <<"6", "2">> ]

\* pub enum Response: the variants; Success alone carries a body.
Variants == DOMAIN ArmCode

\* Response::as_bytes: format!("NN {}\r\n", meta) and, for Success, the
\* body appended as it is.
as_bytes(r) ==
    LET result == StrBytes(ArmCode[r.variant] \o <<" ">> \o r.meta
                              \o <<"\r", "\n">>)
    IN  IF r.variant = "Success" THEN result \o r.body ELSE result

\* ------------------------------------------------------------------------
\* The request: what the single read puts into uri_buffer
\* ------------------------------------------------------------------------

\* The scheme and authority of an absolute URL, "gemini://h".
Origin == <<"g", "e", "m", "i", "n", "i", ":", "/", "/", "h">>

\* The tokens a request path is made of.
PathToks == {"/", ".", "%2e", "%2F", "s"}

\* Bytes a token takes on the wire.
TokBytes(t) == IF t \in {"%2e", "%2F"} THEN 3 ELSE 1

RECURSIVE PathBytes(_)
PathBytes(toks) ==
    IF toks = <<>> THEN 0 ELSE TokBytes(Head(toks)) + PathBytes(Tail(toks))

\* A request is [abs, path, pad, utf8]: the text starts with Origin or not,
\* continues with the path, then with a query of pad bytes, and ends with
\* one byte that is not UTF-8 when utf8 is FALSE.  bytes_read is its length.
bytes_read(req) ==
    (IF req.abs THEN Len(Origin) ELSE 0) + PathBytes(req.path) + req.pad
        + (IF req.utf8 THEN 0 ELSE 1)

\* ------------------------------------------------------------------------
\* url::Url::parse and percent_decode_str
\* ------------------------------------------------------------------------

DotToks == {".", "%2e"}

\* A single-dot path segment: "." or "%2e".
IsSingleDot(seg) == Len(seg) = 1 /\ seg[1] \in DotToks

\* A double-dot path segment: "..", ".%2e", "%2e." or "%2e%2e".
IsDoubleDot(seg) == Len(seg) = 2 /\ seg[1] \in DotToks /\ seg[2] \in DotToks

\* The path state of the URL parser: dot segments are resolved while the
\* path is read, and a dot segment that ends the path leaves an empty one.
RECURSIVE PathSegments(_, _)
PathSegments(segs, out) ==
    IF segs = <<>> THEN out
    ELSE LET seg == Head(segs)
             last == Len(segs) = 1
             shortened == IF out = <<>> THEN out ELSE Front(out)
             out2 == IF IsDoubleDot(seg)
                     THEN (IF last THEN Append(shortened, <<>>) ELSE shortened)
                     ELSE IF IsSingleDot(seg)
                     THEN (IF last THEN Append(out, <<>>) ELSE out)
                     ELSE Append(out, seg)
         IN PathSegments(Tail(segs), out2)

\* The serialized path: every segment after a "/".
RECURSIVE JoinSegments(_)
JoinSegments(segs) ==
    IF segs = <<>> THEN <<>>
    ELSE <<"/">> \o Head(segs) \o JoinSegments(Tail(segs))

\* Url::path() of the parsed URL: the tokens of the normalised path.
UrlPath(toks) ==
    IF toks = <<>> THEN <<>>
    ELSE JoinSegments(PathSegments(SplitOn(Tail(toks), "/"), <<>>))

\* Mutant of UrlParse: a text without a scheme is taken as a path.
UrlParseLenient(req) == [ok |-> TRUE, path |-> UrlPath(req.path), err |-> ""]

\* Url::parse(uri_string).  uri_string is the whole buffer: the bytes read
\* followed by the zeros the buffer was filled with, which the parser trims
\* with every other leading and trailing C0 control or space.  A text that
\* does not start with a scheme is a relative URL, an error without a base.
UrlParse(req) ==
    IF req.abs
    THEN [ok |-> TRUE, path |-> UrlPath(req.path), err |-> ""]
    ELSE [ok |-> FALSE, path |-> <<>>, err |-> "relative URL without a base"]

\* percent_decode_str(..).decode_utf8_lossy(): every escape becomes its byte.
PctDecodeTok(t) ==
    CASE t = "%2e" -> "."
      [] t = "%2F" -> "/"
      [] OTHER -> t

percent_decode_str(toks) == [i \in 1..Len(toks) |-> PctDecodeTok(toks[i])]

\* format!(".{}", percent_decode_str(uri.path()).decode_utf8_lossy())
RequestPath(urlpath) == <<".">> \o percent_decode_str(urlpath)

\* ------------------------------------------------------------------------
\* The filesystem: a map from absolute locations (sequences of names) to
\* nodes.  ok is FALSE for a node whose content cannot be read.
\* ------------------------------------------------------------------------

DirNode == [kind |-> "dir", ok |-> TRUE]
FileNode == [kind |-> "file", ok |-> TRUE]

NameS == <<"s">>
NameA == <<"a">>
NameDotS == <<".", "s">>
NameSS == <<"s", "s">>
NameSDot == <<"s", ".">>
NameDotDotS == <<".", ".", "s">>

\* std::env::set_current_dir(args.data): the content root, /a.
RootDir == <<NameA>>

\* What lies outside the content root: the filesystem root and the file /s.
OutsideFS == (<<>> :> DirNode) @@ (<<NameS>> :> FileNode) @@ (RootDir :> DirNode)

\* The content tree of the server workload:
\*   s/ (directory)  s/s (file)  .s (file)  ss (file that cannot be read)
\*   s. (directory that cannot be listed)  ..s (neither file nor directory)
WorldFS ==
    OutsideFS
    @@ (<<NameA, NameS>> :> DirNode)
    @@ (<<NameA, NameS, NameS>> :> FileNode)
    @@ (<<NameA, NameDotS>> :> FileNode)
    @@ (<<NameA, NameSS>> :> [kind |-> "file", ok |-> FALSE])
    @@ (<<NameA, NameSDot>> :> [kind |-> "dir", ok |-> FALSE])
    @@ (<<NameA, NameDotDotS>> :> [kind |-> "other", ok |-> TRUE])

\* A location is inside the content root when the root is a prefix of it.
InsideRoot(loc) ==
    Len(loc) >= Len(RootDir) /\ SubSeq(loc, 1, Len(RootDir)) = RootDir

\* Path resolution by the operating system, from location loc: every
\* component is looked up in a directory; "" and "." stay, ".." goes to the
\* parent (the filesystem root is its own parent).
RECURSIVE WalkFrom(_, _, _)
WalkFrom(fs, loc, comps) ==
    IF comps = <<>> THEN [found |-> TRUE, loc |-> loc]
    ELSE IF fs[loc].kind # "dir" THEN [found |-> FALSE, loc |-> <<>>]
    ELSE LET c == Head(comps) IN
         IF c = <<>> \/ c = <<".">> THEN WalkFrom(fs, loc, Tail(comps))
         ELSE IF c = <<".", ".">>
         THEN WalkFrom(fs, IF loc = <<>> THEN loc ELSE Front(loc), Tail(comps))
         ELSE IF Append(loc, c) \in DOMAIN fs
         THEN WalkFrom(fs, Append(loc, c), Tail(comps))
         ELSE [found |-> FALSE, loc |-> <<>>]

\* The location a relative path names, resolved from the working directory.
Locate(fs, path) == WalkFrom(fs, RootDir, SplitOn(path, "/"))

\* The names of the entries of the directory at loc.
Children(fs, loc) ==
    { p[Len(p)] : p \in { q \in DOMAIN fs :
                            Len(q) = Len(loc) + 1 /\ Front(q) = loc } }

\* ------------------------------------------------------------------------
\* The directory listing
\* ------------------------------------------------------------------------

\* The names of the listing workload: a.gmi, .hidden, sub, and the names
\* " " and "%20", whose percent-encoded forms are the same text.
NameAGmi == <<"a", ".", "g", "m", "i">>
NameHidden == <<".", "h", "i", "d", "d", "e", "n">>
NameSub == <<"s", "u", "b">>
NameSpace == <<" ">>
NamePct20 == <<"%", "2", "0">>

ListingNames == {NameAGmi, NameHidden, NameSub, NameSpace, NamePct20}

\* A content root that holds the given entries.
ListingFS(entries) ==
    OutsideFS
    @@ [loc \in { <<NameA, n>> : n \in entries } |->
            IF loc[2] = NameSub THEN DirNode ELSE FileNode]

\* The orders read_dir may yield the entries of a directory in: any.
DirOrders(names) ==
    { f \in [1..Cardinality(names) -> names] :
        \A i, j \in 1..Cardinality(names) : i # j => f[i] # f[j] }

\* utf8_percent_encode(&full, FRAGMENT) of one character.  FRAGMENT is the
\* C0 controls, space, double quote, <, > and backquote.
PctEncodeChar(c) ==
    CASE c = " " -> <<"%", "2", "0">>
      [] c = "<" -> <<"%", "3", "C">>
      [] c = ">" -> <<"%", "3", "E">>
      [] c = "\n" -> <<"%", "0", "A">>
      [] OTHER -> <<c>>

utf8_percent_encode(text) ==
    Flatten([i \in 1..Len(text) |-> PctEncodeChar(text[i])])

\* entry.path().display(): the directory path joined with the entry name.
EntryPath(path, name) ==
    path \o (IF path[Len(path)] = "/" THEN <<>> ELSE <<"/">>) \o name

\* format!("=> /{} {}\n", utf8_percent_encode(&full, FRAGMENT), entry)
LinkLine(full, entry) ==
    <<"=", ">", " ", "/">> \o utf8_percent_encode(full) \o <<" ">> \o entry
        \o <<"\n">>

\* The closure of filter_map: the entry is kept when it has a file name
\* that is valid Unicode, which every name of the model is.
KeepEntry(name) == TRUE

\* The filter_map and map over the directory iterator, in its order.
RECURSIVE CollectLinks(_, _)
CollectLinks(path, order) ==
    IF order = <<>> THEN <<>>
    ELSE (IF KeepEntry(Head(order))
          THEN <<LinkLine(EntryPath(path, Head(order)), Head(order))>>
          ELSE <<>>)
         \o CollectLinks(path, Tail(order))

\* One line put in its place in a sorted sequence.
RECURSIVE InsertSorted(_, _)
InsertSorted(line, sorted) ==
    IF sorted = <<>> THEN <<line>>
    ELSE IF StrLess(Head(sorted), line)
    THEN <<Head(sorted)>> \o InsertSorted(line, Tail(sorted))
    ELSE <<line>> \o sorted

\* links.sort()
RECURSIVE SortLines(_)
SortLines(lines) ==
    IF lines = <<>> THEN <<>>
    ELSE InsertSorted(Head(lines), SortLines(Tail(lines)))

\* Mutant of RenderLinks: the sorted lines are not reversed.
RenderLinksAscending(path, order) == SortLines(CollectLinks(path, order))

\* The link lines in the order the body has them: links.sort(), then
\* links.iter().rev().
RenderLinks(path, order) == Reverse(SortLines(CollectLinks(path, order)))

\* format!("{}\n### Path: [ {} ]\n{}\n{}", header, path, body, footer)
ListingBody(path, links) ==
    <<"header.gmi", "\n### Path: [ ">> \o path \o <<" ]\n">> \o Flatten(links)
        \o <<"\n", "footer.gmi">>

\* format!("{}\n{}", body, include_str!("footer.gmi")): the content of the
\* file read at loc is one piece of text.
FileBody(loc) == <<"file content", "\n", "footer.gmi">>

\* The percent-encoded path of a link line: what stands between "=> /" and
\* the first space after it (the encoded path has no space).
RECURSIVE UpToSpace(_)
UpToSpace(text) ==
    IF text = <<>> \/ Head(text) = " " THEN <<>>
    ELSE <<Head(text)>> \o UpToSpace(Tail(text))

LinePath(line) == UpToSpace(SubSeq(line, 5, Len(line)))

\* The display name of a link line: what follows the encoded path and one
\* space, up to the line feed.
LineName(line) == SubSeq(line, 5 + Len(LinePath(line)) + 1, Len(line) - 1)

\* ------------------------------------------------------------------------
\* The task spawned for a connection, up to its write call
\* ------------------------------------------------------------------------

\* Response { status, meta, body }
Response(status, meta, body) == [status |-> status, meta |-> meta, body |-> body]

\* impl Display for Response:
\* write!(f, "{} {}\r\n{}", self.status as u8, self.meta, self.body)
Fmt(response) ==
    Decimal(Code[response.status]) \o <<" ">> \o response.meta \o <<"\r", "\n">>
        \o response.body

\* Mutant of TooLong: a read of exactly the limit is rejected too.
TooLongInclusive(n) == n >= URI_LIMIT

\* if bytes_read > 1024
TooLong(n) == n > URI_LIMIT

\* What the task has done when it reaches a write call: the call site, the
\* response it built, the link lines of a listing, and the filesystem calls
\* it made (each with the location the operating system resolved).
Outcome(site, response, links, calls) ==
    [site |-> site, response |-> response, links |-> links, calls |-> calls]

FsCall(op, path, at) == [op |-> op, path |-> path, at |-> at]

\* Mutant of Oversized: the response is built with the Invalid status.
OversizedInvalid ==
    Outcome("oversized",
            Response("Invalid", <<"URI exceeds 1024 bytes">>, <<>>), <<>>, <<>>)

\* Ok(bytes_read) if bytes_read > 1024
Oversized ==
    Outcome("oversized",
            Response("BadRequest", <<"URI exceeds 1024 bytes">>, <<>>), <<>>, <<>>)

\* Mutant of ReadFailed: the error text is left out of meta.
ReadFailedNoText(e) ==
    Outcome("read_error",
            Response("BadRequest", <<"Failed to recieve URI">>, <<>>), <<>>, <<>>)

\* Err(e) of acceptor.read
ReadFailed(e) ==
    Outcome("read_error",
            Response("BadRequest", <<"Failed to recieve URI : ", e>>, <<>>),
            <<>>, <<>>)

\* Err(e) of std::str::from_utf8
NotUtf8 ==
    Outcome("non_utf8",
            Response("BadRequest",
                     <<"URI is not valid UTF-8 : ", "invalid utf-8 sequence">>,
                     <<>>),
            <<>>, <<>>)

\* Mutant of InvalidUrl: the rejection carries a body.
InvalidUrlWithBody(e) ==
    Outcome("invalid_url",
            Response("BadRequest", <<"URI is valid URI format : ", e>>,
                     <<"footer.gmi">>),
            <<>>, <<>>)

\* Mutant of InvalidUrl: the path is looked up before the URL is parsed.
InvalidUrlAfterLookup(e) ==
    Outcome("invalid_url",
            Response("BadRequest", <<"URI is valid URI format : ", e>>, <<>>),
            <<>>,
            <<FsCall("metadata", <<".">>, [found |-> TRUE, loc |-> RootDir])>>)

\* Err(e) of url::Url::parse
InvalidUrl(e) ==
    Outcome("invalid_url",
            Response("BadRequest", <<"URI is valid URI format : ", e>>, <<>>),
            <<>>, <<>>)

\* Mutant of PathNotFound: the code of PermanentFailure is used.
PathNotFoundAsPermanentFailure ==
    Response("PermanentFailure", <<"Path not found">>, <<>>)

\* _ => Response { status: status::Code::NotFound, ... }
PathNotFound == Response("NotFound", <<"Path not found">>, <<>>)

\* match std::fs::metadata(path.clone()) { ... }: the response for a path.
\* order is the order read_dir yields the entries in.
Resolve(fs, path, order) ==
    LET at == Locate(fs, path)
        node == fs[at.loc]
        meta_call == FsCall("metadata", path, at)
    IN  IF at.found /\ node.kind = "dir"
        THEN IF node.ok
             THEN LET links == RenderLinks(path, order) IN
                  Outcome("resolved",
                          Response("Success", <<"text/gemini">>,
                                   ListingBody(path, links)),
                          links,
                          <<meta_call, FsCall("read_dir", path, at)>>)
             ELSE Outcome("resolved",
                          Response("CgiError",
                                   <<"Failed to generate directory list : ",
                                     "permission denied">>, <<>>),
                          <<>>,
                          <<meta_call, FsCall("read_dir", path, at)>>)
        ELSE IF at.found /\ node.kind = "file"
        THEN IF node.ok
             THEN Outcome("resolved",
                          Response("Success", <<"text/gemini">>, FileBody(at.loc)),
                          <<>>,
                          <<meta_call, FsCall("read_to_string", path, at)>>)
             ELSE Outcome("resolved",
                          Response("CgiError",
                                   <<"Failed to read file : ", "permission denied">>,
                                   <<>>),
                          <<>>,
                          <<meta_call, FsCall("read_to_string", path, at)>>)
        ELSE Outcome("resolved", PathNotFound, <<>>, <<meta_call>>)

\* The body of the spawned task from the completion of acceptor.read to the
\* write call it reaches.  read is the result of the read: [ok, req, err].
Handler(fs, read, order) ==
    IF ~read.ok THEN ReadFailed(read.err)
    ELSE IF TooLong(bytes_read(read.req)) THEN Oversized
    ELSE IF ~read.req.utf8 THEN NotUtf8
    ELSE LET uri == UrlParse(read.req) IN
         IF ~uri.ok THEN InvalidUrl(uri.err)
         ELSE Resolve(fs, RequestPath(uri.path), order)

\* The entries read_dir yields for the request, when the task gets there.
ListedNames(fs, read) ==
    IF ~read.ok \/ TooLong(bytes_read(read.req)) \/ ~read.req.utf8
        \/ ~UrlParse(read.req).ok
    THEN {}
    ELSE LET at == Locate(fs, RequestPath(UrlParse(read.req).path)) IN
         IF at.found /\ fs[at.loc].kind = "dir" /\ fs[at.loc].ok
         THEN Children(fs, at.loc)
         ELSE {}

\* ------------------------------------------------------------------------
\* The server: the accept loop of main and the tasks it spawns
\* ------------------------------------------------------------------------

Conns == 1..NConn

VARIABLES
    fs,       \* the filesystem, read-only while the server runs
    sent,     \* client -> the request its connection delivers to the read
    loop,     \* the accept loop: [pc, cur], cur the socket being upgraded
    backlog,  \* connections established and not yet accepted, oldest first
    st,       \* connection -> where the server is with it
    peer,     \* connection -> how far its client has got
    outcome,  \* connection -> the Outcome of its task, once it has read
    reads,    \* connection -> read calls completed
    writes,   \* connection -> write calls completed
    out,      \* connection -> the bytes a write call accepted
    lib       \* the last call into status.rs or response.rs and its result

vars == <<fs, sent, loop, backlog, st, peer, outcome, reads, writes, out,
          lib>>

\* The outcome of a task that has not read yet.
NoOutcome == Outcome("none", Response("Invalid", <<>>, <<>>), <<>>, <<>>)

\* The errors acceptor.read may return.
ReadErrors == {"connection reset by peer", "peer closed connection without sending TLS close_notify"}

\* The results of acceptor.read for a connection: the bytes the client
\* sent (none when it closed cleanly before sending), or an error.
ReadResults(c) ==
    {[ok |-> TRUE, req |-> sent[c], err |-> ""]}
    \cup {[ok |-> FALSE, req |-> sent[c], err |-> e] : e \in ReadErrors}

\* The results of acceptor.write(bytes): an error, or the number of bytes
\* accepted, which may be all of them or fewer.
WriteResults(bytes) ==
    {[ok |-> FALSE, n |-> 0]}
    \cup {[ok |-> TRUE, n |-> n] : n \in {1, Len(bytes)}}

\* Mutant of AfterHandshakeFailure: the error is propagated out of main.
AfterHandshakeFailureExits == "exited"

\* Mutant of AfterWrite: the task goes back to read the next request.
AfterWriteKeepAlive == "reading"

\* Err(e) of the TLS accept: eprintln!, continue.
AfterHandshakeFailure == "accept"

\* The task after its write call: the async block ends.
AfterWrite == "done"

\* A client establishes a TCP connection.
Connect(c) ==
    /\ c \in DOMAIN sent
    /\ loop.pc # "exited"
    /\ st[c] = "idle"
    /\ st' = [st EXCEPT ![c] = "backlog"]
    /\ backlog' = Append(backlog, c)
    /\ UNCHANGED <<fs, sent, loop, peer, outcome, reads, writes, out, lib>>

\* The client's part of the TLS handshake arrives at the server.
ClientHello(c) ==
    /\ loop.pc # "exited"
    /\ st[c] \in {"backlog", "handshake"}
    /\ peer[c] = "quiet"
    /\ peer' = [peer EXCEPT ![c] = "hello"]
    /\ UNCHANGED <<fs, sent, loop, backlog, st, outcome, reads, writes, out, lib>>

\* The client's request arrives, or the client closes or resets the
\* connection: the read of the task becomes ready.
ClientSend(c) ==
    /\ loop.pc # "exited"
    /\ st[c] = "reading"
    /\ peer[c] = "hello"
    /\ peer' = [peer EXCEPT ![c] = "sent"]
    /\ UNCHANGED <<fs, sent, loop, backlog, st, outcome, reads, writes, out, lib>>

\* let (socket, _) = listener.accept().await?;  -- Ok
Accept ==
    /\ loop.pc = "accept"
    /\ backlog # <<>>
    /\ loop' = [pc |-> "handshake", cur |-> Head(backlog)]
    /\ st' = [st EXCEPT ![Head(backlog)] = "handshake"]
    /\ backlog' = Tail(backlog)
    /\ UNCHANGED <<fs, sent, peer, outcome, reads, writes, out, lib>>

\* let (socket, _) = listener.accept().await?;  -- Err: main returns, the
\* runtime is dropped and every task is cancelled where it is suspended.
AcceptErr ==
    /\ loop.pc = "accept"
    /\ loop' = [pc |-> "exited", cur |-> 0]
    /\ st' = [c \in Conns |->
                IF st[c] \in {"reading", "writing"} THEN "cancelled" ELSE st[c]]
    /\ UNCHANGED <<fs, sent, backlog, peer, outcome, reads, writes, out, lib>>

\* TlsAcceptor::accept(socket).await -- Ok(a): tokio::spawn the task.
HandshakeOk ==
    /\ loop.pc = "handshake"
    /\ peer[loop.cur] = "hello"
    /\ st' = [st EXCEPT ![loop.cur] = "reading"]
    /\ loop' = [pc |-> "accept", cur |-> 0]
    /\ UNCHANGED <<fs, sent, backlog, peer, outcome, reads, writes, out, lib>>

\* TlsAcceptor::accept(socket).await -- Err(e)
HandshakeFail ==
    /\ loop.pc = "handshake"
    /\ peer[loop.cur] = "hello"
    /\ st' = [st EXCEPT ![loop.cur] = "tls_failed"]
    /\ loop' = [pc |-> AfterHandshakeFailure, cur |-> 0]
    /\ UNCHANGED <<fs, sent, backlog, peer, outcome, reads, writes, out, lib>>

\* acceptor.read(&mut uri_buffer).await completes and the task runs to the
\* write call of the branch it takes.
Handle(c) ==
    /\ loop.pc # "exited"
    /\ st[c] = "reading"
    /\ peer[c] = "sent"
    /\ \E read \in ReadResults(c) :
         \E order \in DirOrders(ListedNames(fs, read)) :
            outcome' = [outcome EXCEPT ![c] = Handler(fs, read, order)]
    /\ reads' = [reads EXCEPT ![c] = @ + 1]
    /\ st' = [st EXCEPT ![c] = "writing"]
    /\ UNCHANGED <<fs, sent, loop, backlog, peer, writes, out, lib>>

\* acceptor.write(response.to_string().as_bytes()).await completes; an
\* error is logged; the task ends.
Write(c) ==
    /\ loop.pc # "exited"
    /\ st[c] = "writing"
    /\ \E w \in WriteResults(Fmt(outcome[c].response)) :
         out' = [out EXCEPT ![c] = SubSeq(Fmt(outcome[c].response), 1, w.n)]
    /\ writes' = [writes EXCEPT ![c] = @ + 1]
    /\ st' = [st EXCEPT ![c] = AfterWrite]
    /\ UNCHANGED <<fs, sent, loop, backlog, peer, outcome, reads, lib>>

Next ==
    \/ \E c \in Conns : Connect(c)
    \/ \E c \in Conns : ClientHello(c)
    \/ \E c \in Conns : ClientSend(c)
    \/ Accept
    \/ AcceptErr
    \/ HandshakeOk
    \/ HandshakeFail
    \/ \E c \in Conns : Handle(c)
    \/ \E c \in Conns : Write(c)

\* ------------------------------------------------------------------------
\* Workloads
\* ------------------------------------------------------------------------

\* Every token sequence of at most n tokens that is empty or starts at "/".
PathsUpTo(n) ==
    { p \in UNION { [1..k -> PathToks] : k \in 0..n } : p = <<>> \/ p[1] = "/" }

\* A query that brings a request with a two-byte path to exactly URI_LIMIT
\* bytes, and a request with a three-byte path over it.
LongPad == URI_LIMIT - Len(Origin) - 2

\* Well-formed requests for every path of the bound.
PathRequests ==
    { [abs |-> TRUE, path |-> p, pad |-> 0, utf8 |-> TRUE] :
        p \in PathsUpTo(MaxPathLen) }

\* Requests of every framing (absolute or not, short or long, UTF-8 or
\* not) around the paths of at most two tokens.
FramingRequests ==
    { r \in [abs : BOOLEAN, path : PathsUpTo(2), pad : {0, LongPad},
             utf8 : BOOLEAN] : bytes_read(r) <= URI_BUFFER }

\* gemini://h/robots.txt
RobotsPath == <<"/", "r", "o", "b", "o", "t", "s", ".", "t", "x", "t">>

RobotsRequest == [abs |-> TRUE, path |-> RobotsPath, pad |-> 0, utf8 |-> TRUE]

Requests == PathRequests \cup FramingRequests \cup {RobotsRequest}

\* The request of no bytes: the client closed before sending.
EmptyRequest == [abs |-> FALSE, path |-> <<>>, pad |-> 0, utf8 |-> TRUE]

\* gemini://h/ : the listing of the content root.
RootRequest == [abs |-> TRUE, path |-> <<"/">>, pad |-> 0, utf8 |-> TRUE]

\* gemini://h/s/ : the listing of the directory s of the content root.
SubdirRequest ==
    [abs |-> TRUE, path |-> <<"/", "s", "/">>, pad |-> 0, utf8 |-> TRUE]

\* The requests of the clients that run against each other.
ServerRequests == {EmptyRequest, SubdirRequest}

\* No call into the library has been made.
NoCall == [fn |-> "none"]

InitServer ==
    /\ loop = [pc |-> "accept", cur |-> 0]
    /\ backlog = <<>>
    /\ st = [c \in Conns |-> "idle"]
    /\ peer = [c \in Conns |-> "quiet"]
    /\ outcome = [c \in Conns |-> NoOutcome]
    /\ reads = [c \in Conns |-> 0]
    /\ writes = [c \in Conns |-> 0]
    /\ out = [c \in Conns |-> <<>>]
    /\ lib = NoCall

\* Concurrent clients against the content tree WorldFS.
Init ==
    /\ fs = WorldFS
    /\ sent \in [Conns -> ServerRequests]
    /\ InitServer

Spec == Init /\ [][Next]_vars

\* One client, every request of the bounds, against WorldFS.
InitHandler ==
    /\ fs = WorldFS
    /\ sent \in [{1} -> Requests]
    /\ InitServer

SpecHandler == InitHandler /\ [][Next]_vars

\* One client asking for the listing of a content root of any entries.
InitListing ==
    /\ fs \in { ListingFS(e) : e \in { x \in SUBSET ListingNames :
                                          Cardinality(x) <= MaxEntries } }
    /\ sent \in [{1} -> {RootRequest}]
    /\ InitServer

SpecListing == InitListing /\ [][Next]_vars

\* The characters of the metas given to as_bytes.
MetaChars == {"a", " "}

\* The texts over a set of characters, up to a length.
TextsUpTo(chars, n) == UNION { [1..k -> chars] : k \in 0..n }

\* A body one byte longer than the read buffer of the server.
LongBody == [i \in 1..(URI_BUFFER + 1) |-> 97]

\* The bodies given to as_bytes: empty, holding 0x00, and a long one.
Bodies == { <<>>, <<0>>, <<97, 0, 10>>, LongBody }

\* The values of Response of the workload.
ResponseValues ==
    { [variant |-> "Success", meta |-> m, body |-> b] :
          m \in TextsUpTo(MetaChars, MaxMeta), b \in Bodies }
    \cup { [variant |-> v, meta |-> m] :
              v \in Variants \ {"Success"},
              m \in TextsUpTo(MetaChars, MaxMeta) }

\* response.as_bytes()
AsBytes ==
    /\ \E r \in ResponseValues :
           lib' = [fn |-> "as_bytes", response |-> r, ret |-> as_bytes(r)]
    /\ UNCHANGED <<fs, sent, loop, backlog, st, peer, outcome, reads, writes,
                   out>>

\* Code::from(value)
FromByte ==
    /\ \E value \in 0..U8_MAX :
           lib' = [fn |-> "from", value |-> value, code |-> from_u8(value),
                   as_u8 |-> Code[from_u8(value)]]
    /\ UNCHANGED <<fs, sent, loop, backlog, st, peer, outcome, reads, writes,
                   out>>

\* The six classification predicates and digit_pair of a member.
Classify ==
    /\ \E code \in CodeNames :
           lib' = [fn |-> "classify", code |-> code,
                   is |-> <<is_input(code), is_success(code),
                            is_redirect(code), is_temporary_failure(code),
                            is_permanent_failure(code),
                            is_client_certification_failure(code)>>,
                   pair |-> digit_pair(code)]
    /\ UNCHANGED <<fs, sent, loop, backlog, st, peer, outcome, reads, writes,
                   out>>

NextLib == AsBytes \/ FromByte \/ Classify

\* The library of status.rs and response.rs called with every argument of
\* the bounds, no connection open.
InitLib ==
    /\ fs = WorldFS
    /\ sent \in [{1} -> {EmptyRequest}]
    /\ InitServer

SpecLib == InitLib /\ [][NextLib]_vars

\* ------------------------------------------------------------------------
\* Properties
\* ------------------------------------------------------------------------

\* The clients of the workload.
Clients == DOMAIN sent

\* The task of c has completed its read (and so reached a write call).
HasRead(c) == outcome[c].site # "none"

\* The read of c returned Ok: the buffer holds the request sent[c].
ReadOk(c) == HasRead(c) /\ outcome[c].site # "read_error"

\* The codes of the defined members of the taxonomy (all but Invalid).
DefinedCodes == { Code[n] : n \in CodeNames \ {"Invalid"} }

\* The number a text starts with, digit by digit; -1 when it starts with none.
RECURSIVE LeadingNumber(_, _)
LeadingNumber(text, acc) ==
    IF text # <<>> /\ \E d \in 0..9 : DigitChars[d + 1] = Head(text)
    THEN LeadingNumber(Tail(text),
                       (IF acc < 0 THEN 0 ELSE acc * 10)
                       + (CHOOSE d \in 0..9 : DigitChars[d + 1] = Head(text)))
    ELSE acc

\* C1: for every request whose URL parses, every path the task hands to the
\* filesystem (metadata, read_dir, read_to_string) resolves to a location
\* inside the content root, so no response carries the content or the
\* listing of a file or directory outside it.
C1_PathStaysInsideRoot ==
    \A c \in Clients :
        \A i \in DOMAIN outcome[c].calls :
            outcome[c].calls[i].at.found
                => InsideRoot(outcome[c].calls[i].at.loc)

\* C2: a connection stalled at a suspension point never prevents a later
\* connection from being accepted: while a connection waits to be accepted,
\* the accept loop is not waiting for the silent client of another one.
C2_StalledConnectionNeverBlocksAccept ==
    \A c \in Clients :
        (st[c] = "backlog" /\ loop.pc # "exited")
            => (loop.pc = "accept" \/ peer[loop.cur] # "quiet")

\* A step is a failure of connection c: its TLS handshake fails, its read
\* returns an error, or its write returns an error.
FailureStep(c) ==
    \/ st[c] = "handshake" /\ st'[c] = "tls_failed"
    \/ st[c] = "reading" /\ st'[c] = "writing" /\ outcome'[c].site = "read_error"
    \/ st[c] = "writing" /\ writes'[c] = writes[c] + 1 /\ out'[c] = <<>>

\* C3: a TLS handshake failure, a read error or a write error on one
\* connection ends only that connection: the step leaves the accept loop
\* running and every other connection, its task and its output as they were.
C3_FailureIsIsolated ==
    [][ \A c \in Clients :
            FailureStep(c)
                => /\ loop'.pc # "exited"
                   /\ backlog' = backlog
                   /\ \A d \in Clients \ {c} :
                        /\ st'[d] = st[d]
                        /\ outcome'[d] = outcome[d]
                        /\ out'[d] = out[d]
                        /\ reads'[d] = reads[d]
                        /\ writes'[d] = writes[d] ]_vars

\* C3 witness: one connection failed its handshake, the loop is accepting,
\* and another connection has been answered.
C3_Witness ==
    \E c, d \in Clients :
        /\ st[c] = "tls_failed"
        /\ st[d] = "done" /\ out[d] # <<>>
        /\ loop.pc = "accept"

\* The call sites of acceptor.write in the task.
WriteSites == {"oversized", "read_error", "non_utf8", "invalid_url", "resolved"}

\* C4: a connection whose handshake succeeded performs exactly one read,
\* then one write attempt, then ends, on every path through the task: never
\* a second read or a second write, no write before the read, and a task
\* that has ended has done one of each.
C4_OneReadOneWrite ==
    \A c \in Clients :
        /\ reads[c] <= 1 /\ writes[c] <= 1 /\ writes[c] <= reads[c]
        /\ st[c] \in {"idle", "backlog", "handshake", "tls_failed", "reading"}
              => reads[c] = 0 /\ writes[c] = 0
        /\ st[c] = "writing" => reads[c] = 1 /\ writes[c] = 0
        /\ st[c] = "done"
              => reads[c] = 1 /\ writes[c] = 1 /\ outcome[c].site \in WriteSites

\* C4 witness: a task ended after answering a request it resolved.
C4_Witness ==
    \E c \in Clients :
        st[c] = "done" /\ outcome[c].site = "resolved" /\ writes[c] = 1

\* C5: a read of more than 1024 bytes is answered BadRequest with the meta
\* that names the 1024-byte limit, with no further step; a read of 1024
\* bytes or fewer is not rejected for its size.
C5_OversizedExactlyAboveLimit ==
    \A c \in Clients :
        ReadOk(c) =>
            /\ (bytes_read(sent[c]) > 1024) <=> (outcome[c].site = "oversized")
            /\ outcome[c].site = "oversized"
                  => /\ Code[outcome[c].response.status] = 59
                     /\ outcome[c].response.meta = <<"URI exceeds 1024 bytes">>
                     /\ outcome[c].calls = <<>>

\* C5 witness: a read of 1025 bytes was rejected.
C5_Witness ==
    \E c \in Clients :
        /\ ReadOk(c)
        /\ bytes_read(sent[c]) = 1025
        /\ outcome[c].site = "oversized"

\* C5, the boundary: a request of exactly 1024 bytes was resolved.
C5_WitnessAtLimit ==
    \E c \in Clients :
        /\ ReadOk(c)
        /\ bytes_read(sent[c]) = 1024
        /\ outcome[c].site = "resolved"

\* The response of c is a BadRequest that embeds a read error.
AnswersReadError(c) ==
    /\ Code[outcome[c].response.status] = 59
    /\ Len(outcome[c].response.meta) = 2
    /\ outcome[c].response.meta[1] = "Failed to recieve URI : "
    /\ outcome[c].response.meta[2] \in ReadErrors

\* C6 as stated: a read that returns an error, or that returns zero bytes,
\* is answered BadRequest with the read error text in meta, and the
\* resolver is not reached.
C6_ReadErrorOrZeroBytes ==
    \A c \in Clients :
        (HasRead(c) /\ (~ReadOk(c) \/ bytes_read(sent[c]) = 0))
            => AnswersReadError(c) /\ outcome[c].calls = <<>>

\* C6 as amended: a read that returns an error is answered BadRequest with
\* the read error text in meta; a read that returns zero bytes is no error
\* and is answered BadRequest with the URL parser's error text in meta; in
\* both cases the resolver is not reached.
C6_ReadErrorOrZeroBytesAmended ==
    \A c \in Clients :
        /\ (HasRead(c) /\ ~ReadOk(c))
              => AnswersReadError(c) /\ outcome[c].calls = <<>>
        /\ (ReadOk(c) /\ bytes_read(sent[c]) = 0)
              => /\ Code[outcome[c].response.status] = 59
                 /\ outcome[c].response.meta
                       = <<"URI is valid URI format : ",
                           "relative URL without a base">>
                 /\ outcome[c].calls = <<>>

\* C6 witness: a read of zero bytes was answered.
C6_Witness ==
    \E c \in Clients :
        ReadOk(c) /\ bytes_read(sent[c]) = 0 /\ st[c] = "done"

\* C7: BadRequest is the answer exactly to the client-input errors: bytes
\* that are not UTF-8 and a text that is no absolute URL get BadRequest (the
\* latter with the parser's error text), and a request of at most 1024
\* bytes that was read without error, is UTF-8 and is an absolute URL does
\* not.
C7_BadRequestExactlyForInputErrors ==
    \A c \in Clients :
        /\ HasRead(c) /\ ~ReadOk(c) => Code[outcome[c].response.status] = 59
        /\ ReadOk(c) =>
            LET req == sent[c]
                small == bytes_read(req) <= 1024
            IN  /\ ~small => Code[outcome[c].response.status] = 59
                /\ (small /\ ~req.utf8) => Code[outcome[c].response.status] = 59
                /\ (small /\ req.utf8 /\ ~req.abs)
                      => /\ Code[outcome[c].response.status] = 59
                         /\ outcome[c].response.meta
                               = <<"URI is valid URI format : ",
                                   "relative URL without a base">>
                /\ (small /\ req.utf8 /\ req.abs)
                      => Code[outcome[c].response.status] # 59

\* C7 witness: a request that is UTF-8 and no absolute URL (and not empty)
\* was answered.
C7_Witness ==
    \E c \in Clients :
        /\ ReadOk(c) /\ st[c] = "done"
        /\ sent[c].utf8 /\ ~sent[c].abs /\ sent[c].path # <<>>
        /\ bytes_read(sent[c]) <= 1024

\* C8: a directory listing has no link line for an entry whose name begins
\* with ".".
C8_NoHiddenEntryListed ==
    \A c \in Clients :
        \A i \in DOMAIN outcome[c].links :
            LineName(outcome[c].links[i])[1] # "."

\* The task of c listed the directory at loc.
Listed(c, loc) ==
    /\ outcome[c].site = "resolved"
    /\ Code[outcome[c].response.status] = 20
    /\ Len(outcome[c].calls) = 2
    /\ outcome[c].calls[2].op = "read_dir"
    /\ outcome[c].calls[2].at.loc = loc

\* Every entry of the listed directory has exactly one link line.
EveryEntryOnce(c) ==
    \A loc \in DOMAIN fs :
        Listed(c, loc) =>
            /\ Len(outcome[c].links) = Cardinality(Children(fs, loc))
            /\ \A n \in Children(fs, loc) :
                 Cardinality({ i \in DOMAIN outcome[c].links :
                                  LineName(outcome[c].links[i]) = n }) = 1

\* C9 as stated: of two adjacent link lines the earlier has the greater
\* percent-encoded path, and every listed entry appears exactly once.
C9_ListingStrictlyDescending ==
    \A c \in Clients :
        /\ \A i \in 1..(Len(outcome[c].links) - 1) :
              StrLess(LinePath(outcome[c].links[i + 1]),
                      LinePath(outcome[c].links[i]))
        /\ EveryEntryOnce(c)

\* C9 as amended: of two adjacent link lines the earlier has the greater
\* or the same percent-encoded path (the same when two names encode to one
\* text, "%" not being encoded) and is the greater line, and every listed
\* entry appears exactly once.
C9_ListingDescending ==
    \A c \in Clients :
        /\ \A i \in 1..(Len(outcome[c].links) - 1) :
              /\ ~StrLess(LinePath(outcome[c].links[i]),
                          LinePath(outcome[c].links[i + 1]))
              /\ StrLess(outcome[c].links[i + 1], outcome[c].links[i])
        /\ EveryEntryOnce(c)

\* C9 witness: a listing of at least two entries with different encoded
\* paths was written.
C9_Witness ==
    \E c \in Clients :
        /\ st[c] = "done"
        /\ Len(outcome[c].links) >= 2
        /\ LinePath(outcome[c].links[1]) # LinePath(outcome[c].links[2])

\* C10: every response the task builds and writes carries the code of a
\* defined member of the taxonomy, a number in 10..69, and never that of
\* Invalid: it is what the serialized response starts with, and what the
\* bytes a write accepted start with.
C10_WrittenStatusIsDefined ==
    \A c \in Clients :
        /\ st[c] \in {"writing", "done"} => HasRead(c)
        /\ HasRead(c) =>
            /\ outcome[c].response.status # "Invalid"
            /\ LeadingNumber(Fmt(outcome[c].response), -1) \in DefinedCodes
            /\ LeadingNumber(Fmt(outcome[c].response), -1) \in 10..69
            /\ Fmt(outcome[c].response)[3] = " "
        /\ Len(out[c]) > 1 => LeadingNumber(out[c], -1) \in DefinedCodes

\* C10 witness: a whole response was written.
C10_Witness ==
    \E c \in Clients :
        st[c] = "done" /\ out[c] = Fmt(outcome[c].response)

\* The serialized response without its body: code, space, meta, CRLF.
StatusLine(response) ==
    Decimal(Code[response.status]) \o <<" ">> \o response.meta \o <<"\r", "\n">>

\* A text is the start of another.
IsPrefix(a, b) == Len(a) <= Len(b) /\ a = SubSeq(b, 1, Len(a))

\* C11: body bytes follow the status line only when the status is in the
\* Success class: a response the task writes with another status has an
\* empty body, and its serialization ends with the CRLF of its status line.
C11_BodyOnlyAfterSuccess ==
    \A c \in Clients :
        (HasRead(c) /\ ~in_range(outcome[c].response.status, 20, 29))
            => /\ outcome[c].response.body = <<>>
               /\ Fmt(outcome[c].response) = StatusLine(outcome[c].response)
               /\ IsPrefix(out[c], StatusLine(outcome[c].response))

\* C11 witness: a NotFound response was written whole.
C11_Witness ==
    \E c \in Clients :
        /\ st[c] = "done"
        /\ Code[outcome[c].response.status] = 51
        /\ out[c] = Fmt(outcome[c].response)

\* C15: a request for robots.txt is answered Success with meta text/plain,
\* whether or not the robots file exists or can be read.
C15_RobotsNeverFails ==
    \A c \in Clients :
        (ReadOk(c) /\ sent[c].abs /\ sent[c].utf8 /\ sent[c].path = RobotsPath)
            => /\ Code[outcome[c].response.status] = 20
               /\ outcome[c].response.meta = <<"text/plain">>

\* The node the metadata call of a resolved request found; found is FALSE
\* when the lookup failed.
Looked(c) == outcome[c].calls[1].at

C16_WitnessLookupFailed ==
    \E c \in Clients :
        st[c] = "done" /\ outcome[c].site = "resolved" /\ ~Looked(c).found

C16_WitnessOtherKind ==
    \E c \in Clients :
        /\ st[c] = "done" /\ outcome[c].site = "resolved"
        /\ Looked(c).found /\ fs[Looked(c).loc].kind = "other"

C16_WitnessFileUnreadable ==
    \E c \in Clients :
        /\ st[c] = "done" /\ outcome[c].site = "resolved"
        /\ Looked(c).found
        /\ fs[Looked(c).loc] = [kind |-> "file", ok |-> FALSE]

\* C17: within a connection the filesystem is consulted only after the
\* read has completed and the URL has parsed, so a request rejected as
\* oversized, unreadable, not UTF-8 or unparseable causes no filesystem
\* access, and bytes are written only once the response has been built.
C17_ReadParseDispatchWrite ==
    \A c \in Clients :
        /\ st[c] \in {"idle", "backlog", "handshake", "tls_failed", "reading"}
              => outcome[c] = NoOutcome /\ out[c] = <<>>
        /\ outcome[c].calls # <<>>
              => /\ ReadOk(c)
                 /\ bytes_read(sent[c]) <= 1024
                 /\ sent[c].utf8
                 /\ sent[c].abs
                 /\ outcome[c].site = "resolved"
        /\ outcome[c].site \in {"oversized", "read_error", "non_utf8",
                                "invalid_url"}
              => outcome[c].calls = <<>>
        /\ st[c] = "writing" => HasRead(c) /\ out[c] = <<>>
        /\ out[c] # <<>>
              => /\ HasRead(c) /\ writes[c] = 1
                 /\ IsPrefix(out[c], Fmt(outcome[c].response))

\* C17 witness: a request that is no URL was answered without a filesystem
\* call.
C17_Witness ==
    \E c \in Clients :
        /\ st[c] = "done" /\ out[c] # <<>>
        /\ outcome[c].site = "invalid_url"
        /\ outcome[c].calls = <<>>

\* C19: once startup has succeeded the accept loop never exits.
C19_AcceptLoopNeverExits == loop.pc # "exited"

\* C20: when the write call of a connection returns without error, the
\* bytes it accepted are the complete serialized response.
C20_WriteOkSendsWholeResponse ==
    \A c \in Clients :
        (st[c] = "done" /\ out[c] # <<>>)
            => out[c] = Fmt(outcome[c].response)

\* The serialization of a response value with the code of the taxonomy
\* member its variant is named after.
TaxonomyBytes(r) ==
    StrBytes(Decimal(Code[r.variant]) \o <<" ">> \o r.meta \o <<"\r", "\n">>)
    \o (IF r.variant = "Success" THEN r.body ELSE <<>>)

\* C12: for every variant, meta and body, as_bytes yields the two-digit
\* code of the variant, one space, the meta, CRLF, and then the body bytes
\* unmodified for Success and nothing for every other variant.
C12_SerializationIsExact ==
    lib.fn = "as_bytes" => lib.ret = TaxonomyBytes(lib.response)

\* C12, the framing alone: whatever code an arm writes, it is two digits
\* followed by a space, the meta, CRLF and, for Success only, the body.
C12_Framing ==
    lib.fn = "as_bytes" =>
        LET r == lib.response
            head == 2 + 1 + Len(r.meta) + 2
        IN  /\ Len(lib.ret) >= head
            /\ \A i \in 1..2 : lib.ret[i] \in 48..57
            /\ SubSeq(lib.ret, 3, head)
                  = StrBytes(<<" ">> \o r.meta \o <<"\r", "\n">>)
            /\ SubSeq(lib.ret, head + 1, Len(lib.ret))
                  = (IF r.variant = "Success" THEN r.body ELSE <<>>)

\* C13: for every defined member, exactly one of the six classification
\* predicates is true, it is the one of the decade of the code, and
\* first_digit * 10 + last_digit of digit_pair is the code.
C13_OneClassPerDefinedCode ==
    (lib.fn = "classify" /\ lib.code # "Invalid") =>
        /\ Code[lib.code] \in 10..69
        /\ \A i \in 1..6 : lib.is[i] <=> (Code[lib.code] \div 10 = i)
        /\ Cardinality({ i \in 1..6 : lib.is[i] }) = 1
        /\ lib.pair[1] * 10 + lib.pair[2] = Code[lib.code]

\* C13 witness: a code at the high end of its decade was classified.
C13_Witness ==
    /\ lib.fn = "classify"
    /\ Code[lib.code] = 59
    /\ lib.is[5]

\* C14: Code::from is total over 0..255: the byte of a defined code gives
\* the member of that value, and converting back gives the byte; every
\* other byte gives Invalid; Invalid makes all six predicates false.
C14_FromByteIsTotal ==
    /\ \A value \in 0..U8_MAX : from_u8(value) \in CodeNames
    /\ lib.fn = "from" =>
          /\ lib.code \in CodeNames
          /\ lib.value \in DefinedCodes
                => lib.code # "Invalid" /\ lib.as_u8 = lib.value
          /\ lib.value \notin DefinedCodes => lib.code = "Invalid"
    /\ (lib.fn = "classify" /\ lib.code = "Invalid")
          => \A i \in 1..6 : ~lib.is[i]

\* C14 witness: a byte above every defined code was converted.
C14_Witness ==
    /\ lib.fn = "from"
    /\ lib.value = U8_MAX
    /\ lib.code = "Invalid"

\* C14, the other cases: a defined byte was converted, and Invalid was
\* classified.
C14_WitnessDefined ==
    lib.fn = "from" /\ lib.value = 42 /\ lib.code = "CgiError"

C14_WitnessInvalidClassified ==
    lib.fn = "classify" /\ lib.code = "Invalid"

\* C18: each variant serializes with the code of the taxonomy member of
\* the same name, so variants naming different members never serialize
\* with the same code.
C18_VariantCodeIsTaxonomyCode ==
    lib.fn = "as_bytes" =>
        /\ SubSeq(lib.ret, 1, 2)
              = StrBytes(Decimal(Code[lib.response.variant]))
        /\ \A w \in Variants \ {lib.response.variant} :
              StrBytes(ArmCode[w]) # SubSeq(lib.ret, 1, 2)

====
